---- MODULE Spec2Model ----
(***************************************************************************)
(* gominesweeper: the Board of src/main.go (NewBoard, placeMines,          *)
(* calculateAdjMines, countAdjMines, isValidCell, RevealCell, FlagCell,    *)
(* CheckWin) as a state machine.                                           *)
(*                                                                         *)
(* A call of FlagCell or CheckWin is one step.  A call of RevealCell runs   *)
(* on an explicit call stack, one step per entry of an invocation and per  *)
(* iteration of its neighbour loop; no other call starts before the stack  *)
(* is empty again (the program is single-threaded).                        *)
(***************************************************************************)
EXTENDS Integers, Sequences, FiniteSets

\* Bounds of the explored instances.
MaxCells == 6       \* grids with Width * Height <= MaxCells
MaxMines == 3       \* requested number of mines, 0..MaxMines
MaxCalls == 2       \* number of calls made on one board

\* Command constants for user input (main.go, const block).
CmdReveal == "reveal"
CmdFlag == "flag"
CmdCheckWin == "checkwin"
CmdNone == "none"

VARIABLES
    board,   \* the Board: [Width, Height, Cells], Cells[y][x] a Cell
    mines,   \* the number of mines NewBoard was asked for
    cmd,     \* the last call made on the board
    x, y,    \* the coordinates of the last call (0-based)
    ret,     \* what the last call returned (FALSE while it runs, and for the void FlagCell)
    pre,     \* the board as it was when the last call was made
    again,   \* the last call repeats the call before it (same command, same x, y)
    calls,   \* number of calls made so far
    stack,   \* the active RevealCell invocations, outermost first
    marks,   \* the cells whose Revealed the last RevealCell call set, in order
    session  \* where the program stands: "Active" (a board exists and calls can
             \* be made; main is in its loop), "Won", "Lost" or "Quit" (main
             \* went to End), "Panic" (the runtime stopped the program)

vars == <<board, mines, cmd, x, y, ret, pre, again, calls, stack, marks, session>>

----------------------------------------------------------------------------
\* type Cell struct: the zero value Go's make() gives every cell.
Cell == [IsMine |-> FALSE, AdjMines |-> 0, Revealed |-> FALSE, Flagged |-> FALSE]

\* The positions slice of placeMines before the shuffle: row by row, [x, y].
Positions(width, height) ==
    [k \in 1..(width * height) |-> <<(k - 1) % width, (k - 1) \div width>>]

\* rand.Shuffle leaves a permutation of positions; placeMines reads only its
\* first n entries, so the outcomes are the injective sequences of length n.
Shuffle(positions, n) ==
    {s \in [1..n -> {positions[k] : k \in DOMAIN positions}] :
        \A i, j \in 1..n : i # j => s[i] # s[j]}

\* isValidCell: the coordinates are within the bounds of the board.
isValidCell(b, cx, cy) ==
    cx >= 0 /\ cx < b.Width /\ cy >= 0 /\ cy < b.Height

\* A cap that divides before it multiplies.
placeMinesDivFirst(b, n, positions) ==
    LET availableCells == b.Width * b.Height
        maxMines == (availableCells \div 9) * 5
        m == IF n > maxMines THEN maxMines ELSE n
    IN  [b EXCEPT !.Cells = [cy \in 0..(b.Height - 1) |-> [cx \in 0..(b.Width - 1) |->
            IF \E i \in (1..m) \cap DOMAIN positions : positions[i] = <<cx, cy>>
            THEN [b.Cells[cy][cx] EXCEPT !.IsMine = TRUE]
            ELSE b.Cells[cy][cx]]]]

\* A placement without the cap.
placeMinesNoCap(b, n, positions) ==
    [b EXCEPT !.Cells = [cy \in 0..(b.Height - 1) |-> [cx \in 0..(b.Width - 1) |->
        IF \E i \in (1..n) \cap DOMAIN positions : positions[i] = <<cx, cy>>
        THEN [b.Cells[cy][cx] EXCEPT !.IsMine = TRUE]
        ELSE b.Cells[cy][cx]]]]

\* placeMines: cap the count at availableCells*5/9, then mine the first
\* entries of the shuffled positions (positions is the slice after the shuffle;
\* the capped count never exceeds its length).
placeMines(b, n, positions) ==
    LET availableCells == b.Width * b.Height
        maxMines == (availableCells * 5) \div 9
        m == IF n > maxMines THEN maxMines ELSE n
    IN  [b EXCEPT !.Cells = [cy \in 0..(b.Height - 1) |-> [cx \in 0..(b.Width - 1) |->
            IF \E i \in (1..m) \cap DOMAIN positions : positions[i] = <<cx, cy>>
            THEN [b.Cells[cy][cx] EXCEPT !.IsMine = TRUE]
            ELSE b.Cells[cy][cx]]]]

\* The offsets slice of countAdjMines.
offsets == {-1, 0, 1}

\* A count over the four orthogonal neighbours only.
countAdjMinesOrthogonal(b, cx, cy) ==
    Cardinality({o \in offsets \X offsets :
        /\ (o[1] = 0) # (o[2] = 0)
        /\ isValidCell(b, cx + o[1], cy + o[2])
        /\ b.Cells[cy + o[2]][cx + o[1]].IsMine})

\* countAdjMines: over the pairs of offsets other than (0, 0), count the
\* valid cells that are mines.
countAdjMines(b, cx, cy) ==
    Cardinality({o \in offsets \X offsets :
        /\ ~(o[1] = 0 /\ o[2] = 0)
        /\ isValidCell(b, cx + o[1], cy + o[2])
        /\ b.Cells[cy + o[2]][cx + o[1]].IsMine})

\* calculateAdjMines: every cell that is not a mine gets its count; a mine
\* keeps the zero it was made with.
calculateAdjMines(b) ==
    [b EXCEPT !.Cells = [cy \in 0..(b.Height - 1) |-> [cx \in 0..(b.Width - 1) |->
        IF ~b.Cells[cy][cx].IsMine
        THEN [b.Cells[cy][cx] EXCEPT !.AdjMines = countAdjMines(b, cx, cy)]
        ELSE b.Cells[cy][cx]]]]

\* A construction that leaves every count at the zero it was made with.
NewBoardNoCounts(width, height, n, positions) ==
    LET b0 == [Width |-> width, Height |-> height,
               Cells |-> [cy \in 0..(height - 1) |-> [cx \in 0..(width - 1) |-> Cell]]]
    IN  placeMines(b0, n, positions)

\* NewBoard: allocate, place the mines, count the neighbours.
NewBoard(width, height, n, positions) ==
    LET b0 == [Width |-> width, Height |-> height,
               Cells |-> [cy \in 0..(height - 1) |-> [cx \in 0..(width - 1) |-> Cell]]]
    IN  calculateAdjMines(placeMines(b0, n, positions))

----------------------------------------------------------------------------
\* One invocation of RevealCell on the call stack: its arguments, where it
\* stands (at its first line, or in the double loop) and the loop iteration
\* k = 3*(i+1) + (j+1) it is about to run.
Frame(cx, cy) == [x |-> cx, y |-> cy, pc |-> "entry", k |-> 0]

Top(st) == st[Len(st)]
Pop(st) == SubSeq(st, 1, Len(st) - 1)

\* An entry without the check for a cell that is already revealed.
EnterNoRevealedCheck(b, cx, cy) ==
    IF ~isValidCell(b, cx, cy)
    THEN [b |-> b, pc |-> "return", hit |-> FALSE, marked |-> FALSE]
    ELSE LET b1 == [b EXCEPT !.Cells[cy][cx].Revealed = TRUE]
         IN  IF b1.Cells[cy][cx].IsMine
             THEN [b |-> b1, pc |-> "return", hit |-> TRUE, marked |-> TRUE]
             ELSE IF b1.Cells[cy][cx].AdjMines = 0
             THEN [b |-> b1, pc |-> "loop", hit |-> FALSE, marked |-> TRUE]
             ELSE [b |-> b1, pc |-> "return", hit |-> FALSE, marked |-> TRUE]

\* An entry that tests for a mine before it tests for a revealed cell.
EnterMineFirst(b, cx, cy) ==
    IF ~isValidCell(b, cx, cy)
    THEN [b |-> b, pc |-> "return", hit |-> FALSE, marked |-> FALSE]
    ELSE IF b.Cells[cy][cx].IsMine
    THEN [b |-> [b EXCEPT !.Cells[cy][cx].Revealed = TRUE], pc |-> "return",
          hit |-> TRUE, marked |-> ~b.Cells[cy][cx].Revealed]
    ELSE IF b.Cells[cy][cx].Revealed
    THEN [b |-> b, pc |-> "return", hit |-> FALSE, marked |-> FALSE]
    ELSE LET b1 == [b EXCEPT !.Cells[cy][cx].Revealed = TRUE]
         IN  IF b1.Cells[cy][cx].AdjMines = 0
             THEN [b |-> b1, pc |-> "loop", hit |-> FALSE, marked |-> TRUE]
             ELSE [b |-> b1, pc |-> "return", hit |-> FALSE, marked |-> TRUE]

\* An entry that tests the count before it tests for a mine (a mine's count
\* is the zero it was made with).
EnterCountFirst(b, cx, cy) ==
    IF ~isValidCell(b, cx, cy)
    THEN [b |-> b, pc |-> "return", hit |-> FALSE, marked |-> FALSE]
    ELSE IF b.Cells[cy][cx].Revealed
    THEN [b |-> b, pc |-> "return", hit |-> FALSE, marked |-> FALSE]
    ELSE LET b1 == [b EXCEPT !.Cells[cy][cx].Revealed = TRUE]
         IN  IF b1.Cells[cy][cx].AdjMines = 0
             THEN [b |-> b1, pc |-> "loop", hit |-> FALSE, marked |-> TRUE]
             ELSE IF b1.Cells[cy][cx].IsMine
             THEN [b |-> b1, pc |-> "return", hit |-> TRUE, marked |-> TRUE]
             ELSE [b |-> b1, pc |-> "return", hit |-> FALSE, marked |-> TRUE]

\* An entry that covers a revealed cell again instead of leaving it alone.
EnterToggle(b, cx, cy) ==
    IF ~isValidCell(b, cx, cy)
    THEN [b |-> b, pc |-> "return", hit |-> FALSE, marked |-> FALSE]
    ELSE IF b.Cells[cy][cx].Revealed
    THEN [b |-> [b EXCEPT !.Cells[cy][cx].Revealed = FALSE], pc |-> "return",
          hit |-> FALSE, marked |-> FALSE]
    ELSE LET b1 == [b EXCEPT !.Cells[cy][cx].Revealed = TRUE]
         IN  IF b1.Cells[cy][cx].IsMine
             THEN [b |-> b1, pc |-> "return", hit |-> TRUE, marked |-> TRUE]
             ELSE IF b1.Cells[cy][cx].AdjMines = 0
             THEN [b |-> b1, pc |-> "loop", hit |-> FALSE, marked |-> TRUE]
             ELSE [b |-> b1, pc |-> "return", hit |-> FALSE, marked |-> TRUE]

\* An entry that leaves a flagged cell covered.
EnterFlagBlocks(b, cx, cy) ==
    IF ~isValidCell(b, cx, cy)
    THEN [b |-> b, pc |-> "return", hit |-> FALSE, marked |-> FALSE]
    ELSE IF b.Cells[cy][cx].Revealed \/ b.Cells[cy][cx].Flagged
    THEN [b |-> b, pc |-> "return", hit |-> FALSE, marked |-> FALSE]
    ELSE LET b1 == [b EXCEPT !.Cells[cy][cx].Revealed = TRUE]
         IN  IF b1.Cells[cy][cx].IsMine
             THEN [b |-> b1, pc |-> "return", hit |-> TRUE, marked |-> TRUE]
             ELSE IF b1.Cells[cy][cx].AdjMines = 0
             THEN [b |-> b1, pc |-> "loop", hit |-> FALSE, marked |-> TRUE]
             ELSE [b |-> b1, pc |-> "return", hit |-> FALSE, marked |-> TRUE]

\* An entry that never goes on to the neighbours.
EnterNoCascade(b, cx, cy) ==
    IF ~isValidCell(b, cx, cy)
    THEN [b |-> b, pc |-> "return", hit |-> FALSE, marked |-> FALSE]
    ELSE IF b.Cells[cy][cx].Revealed
    THEN [b |-> b, pc |-> "return", hit |-> FALSE, marked |-> FALSE]
    ELSE LET b1 == [b EXCEPT !.Cells[cy][cx].Revealed = TRUE]
         IN  [b |-> b1, pc |-> "return", hit |-> b1.Cells[cy][cx].IsMine, marked |-> TRUE]

\* An entry that takes the flag off the cell it reveals.
EnterClearsFlag(b, cx, cy) ==
    IF ~isValidCell(b, cx, cy)
    THEN [b |-> b, pc |-> "return", hit |-> FALSE, marked |-> FALSE]
    ELSE IF b.Cells[cy][cx].Revealed
    THEN [b |-> b, pc |-> "return", hit |-> FALSE, marked |-> FALSE]
    ELSE LET b1 == [b EXCEPT !.Cells[cy][cx].Revealed = TRUE,
                             !.Cells[cy][cx].Flagged = FALSE]
         IN  IF b1.Cells[cy][cx].IsMine
             THEN [b |-> b1, pc |-> "return", hit |-> TRUE, marked |-> TRUE]
             ELSE IF b1.Cells[cy][cx].AdjMines = 0
             THEN [b |-> b1, pc |-> "loop", hit |-> FALSE, marked |-> TRUE]
             ELSE [b |-> b1, pc |-> "return", hit |-> FALSE, marked |-> TRUE]

\* RevealCell from its first line to the loop or to a return:
\* [b |-> the board, pc |-> "return" or "loop", hit |-> the value returned,
\*  marked |-> whether Revealed was set].
Enter(b, cx, cy) ==
    IF ~isValidCell(b, cx, cy)
    THEN [b |-> b, pc |-> "return", hit |-> FALSE, marked |-> FALSE]
    ELSE IF b.Cells[cy][cx].Revealed
    THEN [b |-> b, pc |-> "return", hit |-> FALSE, marked |-> FALSE]
    ELSE LET b1 == [b EXCEPT !.Cells[cy][cx].Revealed = TRUE]
         IN  IF b1.Cells[cy][cx].IsMine
             THEN [b |-> b1, pc |-> "return", hit |-> TRUE, marked |-> TRUE]
             ELSE IF b1.Cells[cy][cx].AdjMines = 0
             THEN [b |-> b1, pc |-> "loop", hit |-> FALSE, marked |-> TRUE]
             ELSE [b |-> b1, pc |-> "return", hit |-> FALSE, marked |-> TRUE]

\* A loop whose counter is not advanced.
IterateStuck(f) ==
    IF f.k <= 8
    THEN [pc |-> "call", x |-> f.x + (f.k \div 3) - 1, y |-> f.y + (f.k % 3) - 1,
          f |-> f]
    ELSE [pc |-> "return", x |-> f.x, y |-> f.y, f |-> f]

\* A loop that stops before i = 1 (i < 1 for i <= 1).
IterateShort(f) ==
    IF f.k <= 5
    THEN [pc |-> "call", x |-> f.x + (f.k \div 3) - 1, y |-> f.y + (f.k % 3) - 1,
          f |-> [f EXCEPT !.k = f.k + 1]]
    ELSE [pc |-> "return", x |-> f.x, y |-> f.y, f |-> f]

\* The double loop of RevealCell at iteration k of frame f (i = k/3 - 1,
\* j = k%3 - 1): the nested call b.RevealCell(x+i, y+j) it makes and the frame
\* with its counters advanced, or "return" after the last iteration.
Iterate(f) ==
    IF f.k <= 8
    THEN [pc |-> "call", x |-> f.x + (f.k \div 3) - 1, y |-> f.y + (f.k % 3) - 1,
          f |-> [f EXCEPT !.k = f.k + 1]]
    ELSE [pc |-> "return", x |-> f.x, y |-> f.y, f |-> f]

\* A FlagCell without the check for a revealed cell.
FlagCellAny(b, cx, cy) ==
    IF ~isValidCell(b, cx, cy) THEN b
    ELSE [b EXCEPT !.Cells[cy][cx].Flagged = ~b.Cells[cy][cx].Flagged]

\* A FlagCell that sets the flag instead of toggling it.
FlagCellSet(b, cx, cy) ==
    IF ~isValidCell(b, cx, cy) THEN b
    ELSE IF b.Cells[cy][cx].Revealed THEN b
    ELSE [b EXCEPT !.Cells[cy][cx].Flagged = TRUE]

\* A FlagCell that wraps coordinates around the board instead of checking them.
FlagCellWrap(b, cx, cy) ==
    LET wx == cx % b.Width
        wy == cy % b.Height
    IN  IF b.Cells[wy][wx].Revealed THEN b
        ELSE [b EXCEPT !.Cells[wy][wx].Flagged = ~b.Cells[wy][wx].Flagged]

\* FlagCell: toggle the flag of a valid cell that is not revealed.
FlagCell(b, cx, cy) ==
    IF ~isValidCell(b, cx, cy) THEN b
    ELSE IF b.Cells[cy][cx].Revealed THEN b
    ELSE [b EXCEPT !.Cells[cy][cx].Flagged = ~b.Cells[cy][cx].Flagged]

\* CheckWin: scan the rows, cell by cell (k-th cell in row-major order);
\* the first safe cell that is not revealed ends the scan with false.
RECURSIVE CheckWinFrom(_, _)
CheckWinFrom(b, k) ==
    IF k >= b.Width * b.Height THEN TRUE
    ELSE LET cell == b.Cells[k \div b.Width][k % b.Width]
         IN  IF ~cell.IsMine /\ ~cell.Revealed THEN FALSE
             ELSE CheckWinFrom(b, k + 1)

\* A scan that wants every cell revealed, the mines too.
RECURSIVE CheckWinAllFrom(_, _)
CheckWinAllFrom(b, k) ==
    IF k >= b.Width * b.Height THEN TRUE
    ELSE LET cell == b.Cells[k \div b.Width][k % b.Width]
         IN  IF ~cell.Revealed THEN FALSE
             ELSE CheckWinAllFrom(b, k + 1)

CheckWinAll(b) == CheckWinAllFrom(b, 0)

CheckWin(b) == CheckWinFrom(b, 0)

----------------------------------------------------------------------------
\* Coordinates a caller passes: every cell of the board and, on each side,
\* one coordinate beyond it.
Coords(b) ==
    ((0..(b.Width - 1)) \X (0..(b.Height - 1)))
    \cup {<<-1, 0>>, <<0, -1>>, <<b.Width, 0>>, <<0, b.Height>>}

Min(a, c) == IF a < c THEN a ELSE c

Sizes == {s \in (1..MaxCells) \X (1..MaxCells) : s[1] * s[2] <= MaxCells}

Init ==
    /\ \E s \in Sizes, n \in 0..MaxMines :
         \E positions \in Shuffle(Positions(s[1], s[2]), Min(n, s[1] * s[2])) :
            /\ board = NewBoard(s[1], s[2], n, positions)
            /\ mines = n
    /\ cmd = CmdNone
    /\ x = 0
    /\ y = 0
    /\ ret = FALSE
    /\ pre = board
    /\ again = FALSE
    /\ calls = 0
    /\ stack = <<>>
    /\ marks = <<>>
    /\ session = "Active"

\* A call starts: the caller's bookkeeping. Calls are made by a running
\* program that is not inside another call.
Called(c, cx, cy) ==
    /\ session = "Active"
    /\ stack = <<>>
    /\ calls < MaxCalls
    /\ cmd' = c
    /\ x' = cx
    /\ y' = cy
    /\ pre' = board
    /\ again' = (cmd = c /\ x = cx /\ y = cy)
    /\ calls' = calls + 1
    /\ UNCHANGED <<mines, session>>

\* board.RevealCell(cx, cy) is called: its invocation is pushed.
Reveal(cx, cy) ==
    /\ Called(CmdReveal, cx, cy)
    /\ stack' = <<Frame(cx, cy)>>
    /\ marks' = <<>>
    /\ ret' = FALSE
    /\ UNCHANGED board

\* The innermost invocation runs from its first line to the loop or a return.
\* Only the outermost invocation's result reaches the caller.
RevealCellEnter ==
    /\ stack # <<>>
    /\ Top(stack).pc = "entry"
    /\ LET f == Top(stack)
           e == Enter(board, f.x, f.y)
       IN  /\ board' = e.b
           /\ marks' = IF e.marked THEN Append(marks, <<f.x, f.y>>) ELSE marks
           /\ IF e.pc = "loop"
              THEN /\ stack' = [stack EXCEPT ![Len(stack)].pc = "loop"]
                   /\ UNCHANGED ret
              ELSE /\ stack' = Pop(stack)
                   /\ ret' = IF Len(stack) = 1 THEN e.hit ELSE ret
    /\ UNCHANGED <<mines, cmd, x, y, pre, again, calls>>

\* The innermost invocation runs one iteration of its loop: it calls
\* RevealCell on a neighbour (and will ignore what that returns), or it is
\* past the last iteration and returns false.
RevealCellLoop ==
    /\ stack # <<>>
    /\ Top(stack).pc = "loop"
    /\ LET f == Top(stack)
           it == Iterate(f)
       IN  IF it.pc = "call"
           THEN /\ stack' = Append([stack EXCEPT ![Len(stack)] = it.f],
                                   Frame(it.x, it.y))
                /\ UNCHANGED ret
           ELSE /\ stack' = Pop(stack)
                /\ ret' = IF Len(stack) = 1 THEN FALSE ELSE ret
    /\ UNCHANGED <<board, mines, cmd, x, y, pre, again, calls, marks>>

\* The steps of RevealCell when it is called on the board directly.
StepEnter == RevealCellEnter /\ UNCHANGED session
StepLoop == RevealCellLoop /\ UNCHANGED session

\* board.FlagCell(cx, cy)
Flag(cx, cy) ==
    /\ Called(CmdFlag, cx, cy)
    /\ board' = FlagCell(board, cx, cy)
    /\ ret' = FALSE
    /\ UNCHANGED <<stack, marks>>

\* board.CheckWin()
Win ==
    /\ Called(CmdCheckWin, 0, 0)
    /\ ret' = CheckWin(board)
    /\ UNCHANGED <<board, stack, marks>>

DoReveal == \E c \in Coords(board) : Reveal(c[1], c[2])
DoFlag == \E c \in Coords(board) : Flag(c[1], c[2])
Step == StepEnter \/ StepLoop

Next == DoReveal \/ DoFlag \/ Win \/ StepEnter \/ StepLoop

Spec == Init /\ [][Next]_vars

\* A started call runs on: the program executes its next statement.
FairSpec == Spec /\ WF_vars(Step)

\* The calls of RevealCell alone (it reads no flag, and CheckWin writes nothing).
RevealNext == DoReveal \/ StepEnter \/ StepLoop
RevealSpec == Init /\ [][RevealNext]_vars /\ WF_vars(Step)

----------------------------------------------------------------------------
\* The game loop of main: one command per iteration while the session is
\* "Active"; the loop is left through "goto End".

\* A judgement that lets the game go on after a mine was hit.
AfterRevealNoLoss(hit, b) ==
    IF hit THEN "Active"
    ELSE IF CheckWin(b) THEN "Won"
    ELSE "Active"

\* A judgement that never asks CheckWin.
AfterRevealNoWin(hit, b) ==
    IF hit THEN "Lost" ELSE "Active"

\* What main does with the result of board.RevealCell(x, y): a hit ends the
\* game as lost; otherwise board.CheckWin() is asked and true ends it as won;
\* otherwise the loop goes on.
AfterReveal(hit, b) ==
    IF hit THEN "Lost"
    ELSE IF CheckWin(b) THEN "Won"
    ELSE "Active"

\* The session after a step of RevealCell: judged when the outermost
\* invocation has returned to main.
Judged == IF stack' = <<>> THEN AfterReveal(ret', board') ELSE session

\* "reveal x y" with coordinates that passed main's isValidCell check.
MainReveal ==
    \E c \in Coords(board) :
        /\ isValidCell(board, c[1], c[2])
        /\ Reveal(c[1], c[2])

\* The steps of the RevealCell call made by main.
MainStepEnter == RevealCellEnter /\ session' = Judged
MainStepLoop == RevealCellLoop /\ session' = Judged

\* "flag x y" with coordinates that passed main's isValidCell check.
MainFlag ==
    \E c \in Coords(board) :
        /\ isValidCell(board, c[1], c[2])
        /\ Flag(c[1], c[2])

\* Coordinates that fail main's isValidCell check: "Invalid coordinates",
\* and the loop continues with nothing called.
Rejected ==
    /\ session = "Active"
    /\ stack = <<>>
    /\ \E c \in Coords(board) : ~isValidCell(board, c[1], c[2])
    /\ UNCHANGED vars

\* "quit"
Quit ==
    /\ session = "Active"
    /\ stack = <<>>
    /\ session' = "Quit"
    /\ UNCHANGED <<board, mines, cmd, x, y, ret, pre, again, calls, stack, marks>>

MainNext == MainReveal \/ MainFlag \/ Rejected \/ Quit \/ MainStepEnter \/ MainStepLoop

MainSpec == Init /\ [][MainNext]_vars

----------------------------------------------------------------------------
\* NewBoard with any integers.

\* The two make calls of NewBoard: Go panics on a negative length. The rows
\* are made only if there are rows.
MakePanics(width, height) == height < 0 \/ (height > 0 /\ width < 0)

\* Widths and heights from -1 up.
AnySizes == {s \in ((-1)..MaxCells) \X ((-1)..MaxCells) : s[1] * s[2] <= MaxCells}

\* NewBoard(width, height, mines) returns a board, or a make panics and only
\* the struct with Width and Height exists.
TotalInit ==
    /\ \E s \in AnySizes, n \in (-1)..MaxMines :
         IF MakePanics(s[1], s[2])
         THEN /\ board = [Width |-> s[1], Height |-> s[2], Cells |-> <<>>]
              /\ mines = n
              /\ session = "Panic"
         ELSE \E positions \in Shuffle(Positions(s[1], s[2]), Min(n, s[1] * s[2])) :
                 /\ board = NewBoard(s[1], s[2], n, positions)
                 /\ mines = n
                 /\ session = "Active"
    /\ cmd = CmdNone
    /\ x = 0
    /\ y = 0
    /\ ret = FALSE
    /\ pre = board
    /\ again = FALSE
    /\ calls = 0
    /\ stack = <<>>
    /\ marks = <<>>

TotalSpec == TotalInit /\ [][Next]_vars

----------------------------------------------------------------------------
\* Vocabulary of the properties.
Pos(b) == (0..(b.Width - 1)) \X (0..(b.Height - 1))
At(b, p) == b.Cells[p[2]][p[1]]
MineSet(b) == {p \in Pos(b) : At(b, p).IsMine}
RevealedSet(b) == {p \in Pos(b) : At(b, p).Revealed}
FlaggedSet(b) == {p \in Pos(b) : At(b, p).Flagged}
Abs(n) == IF n < 0 THEN -n ELSE n
Chebyshev(p, q) ==
    IF Abs(p[1] - q[1]) > Abs(p[2] - q[2]) THEN Abs(p[1] - q[1]) ELSE Abs(p[2] - q[2])
Nbrs(b, p) == {q \in Pos(b) : Chebyshev(p, q) = 1}
IsZero(b, p) == ~At(b, p).IsMine /\ At(b, p).AdjMines = 0

\* The maximal 8-connected region of zero-count safe cells that contains c.
RECURSIVE Grow(_, _)
Grow(b, S) ==
    LET T == S \cup {q \in Pos(b) : IsZero(b, q) /\ \E p \in S : q \in Nbrs(b, p)}
    IN  IF T = S THEN S ELSE Grow(b, T)
ZeroRegion(b, c) == Grow(b, {c})
Border(b, Z) == UNION {Nbrs(b, p) : p \in Z}

\* The last call has returned.
Returned(c) == stack = <<>> /\ cmd = c

\* C1. Flood-fill completeness: a RevealCell on a valid, unrevealed, safe cell
\* with count 0 leaves revealed exactly what was revealed before, the maximal
\* 8-connected zero region of that cell and every neighbour of that region.
C1_FloodFillComplete ==
    (/\ Returned(CmdReveal)
     /\ isValidCell(pre, x, y)
     /\ ~At(pre, <<x, y>>).Revealed
     /\ IsZero(pre, <<x, y>>))
    => LET Z == ZeroRegion(pre, <<x, y>>)
       IN  RevealedSet(board) = RevealedSet(pre) \cup Z \cup Border(pre, Z)

\* C1 witness: a cascade over a zero region of at least two cells finished,
\* its border holds a cell with a nonzero count, and a safe cell outside of
\* the region and its border is still covered.
C1_Witness ==
    /\ Returned(CmdReveal)
    /\ isValidCell(pre, x, y)
    /\ ~At(pre, <<x, y>>).Revealed
    /\ IsZero(pre, <<x, y>>)
    /\ LET Z == ZeroRegion(pre, <<x, y>>)
       IN  /\ Cardinality(Z) >= 2
           /\ \E p \in Border(pre, Z) : ~IsZero(board, p) /\ At(board, p).Revealed
           /\ \E p \in Pos(board) : ~At(board, p).IsMine /\ ~At(board, p).Revealed

\* The board is as NewBoard returned it: no call has been made on it.
Fresh == calls = 0

\* C2. The board NewBoard returns holds exactly
\* min(requested, floor(width*height*5/9)) mines, each on a cell of its own
\* within the board; the other cells are safe.
C2_MineCount ==
    Fresh =>
        LET cap == (board.Width * board.Height * 5) \div 9
            want == IF mines < cap THEN mines ELSE cap
        IN  /\ DOMAIN board.Cells = 0..(board.Height - 1)
            /\ \A cy \in DOMAIN board.Cells : DOMAIN board.Cells[cy] = 0..(board.Width - 1)
            /\ Cardinality(MineSet(board)) = want
            /\ Cardinality(Pos(board) \ MineSet(board)) = board.Width * board.Height - want

\* C2 witness: more mines were requested than the cap allows, and the board
\* holds the capped number of them (2x2 with 3 requested: 2 mines, 2 safe).
C2_Witness ==
    /\ board.Width = 2
    /\ board.Height = 2
    /\ mines = 3
    /\ Cardinality(MineSet(board)) = 2
    /\ Fresh

\* C3. On the board NewBoard returns, every safe cell's AdjMines is the
\* number of mines among the cells of the board at Chebyshev distance exactly
\* 1 from it, a value in 0..8.
C3_AdjMinesExact ==
    Fresh =>
        \A p \in Pos(board) :
            ~At(board, p).IsMine =>
                /\ At(board, p).AdjMines = Cardinality(Nbrs(board, p) \cap MineSet(board))
                /\ At(board, p).AdjMines \in 0..8

\* C3 witness: a fresh board with a safe cell that counts two mines, one of
\* them a diagonal neighbour, while a mine farther away is not counted.
C3_Witness ==
    /\ Fresh
    /\ \E p \in Pos(board) :
        /\ ~At(board, p).IsMine
        /\ At(board, p).AdjMines = 2
        /\ \E q \in MineSet(board) : Abs(p[1] - q[1]) = 1 /\ Abs(p[2] - q[2]) = 1
        /\ \E q \in MineSet(board) : Chebyshev(p, q) > 1

\* A safe cell is still covered.
SafeCovered(b) == \E p \in Pos(b) : ~At(b, p).IsMine /\ ~At(b, p).Revealed

\* C4. Between calls, CheckWin is true exactly when every safe cell is
\* revealed, and that is what a call of it returns; toggling the flag of any
\* cell, or the revealed field of any mine, leaves its result as it was.
C4_CheckWinExact ==
    stack = <<>> =>
    /\ CheckWin(board) = ~SafeCovered(board)
    /\ Returned(CmdCheckWin) => ret = ~SafeCovered(board)
    /\ \A p \in Pos(board) :
        /\ CheckWin([board EXCEPT !.Cells[p[2]][p[1]].Flagged = ~At(board, p).Flagged])
             = CheckWin(board)
        /\ At(board, p).IsMine =>
             CheckWin([board EXCEPT !.Cells[p[2]][p[1]].Revealed = ~At(board, p).Revealed])
               = CheckWin(board)

\* C4 witness: CheckWin returned true on a board that has mines, none of them
\* revealed, and returned it although nothing is flagged.
C4_Witness ==
    /\ Returned(CmdCheckWin)
    /\ ret
    /\ MineSet(board) # {}
    /\ MineSet(board) \cap RevealedSet(board) = {}
    /\ FlaggedSet(board) = {}

\* C5 as claimed: no cell is revealed and flagged at the same time.
C5_NeverRevealedAndFlagged ==
    RevealedSet(board) \cap FlaggedSet(board) = {}

\* C5 amended. A revealed cell's flag never changes, and a cell is revealed
\* and flagged at once only if it was flagged when it was revealed: a cell
\* revealed before a call has the flag it had before the call, and a cell
\* revealed and flagged after a call was flagged before it.
C5_FlagFrozenOnceRevealed ==
    \A p \in Pos(board) :
        /\ At(pre, p).Revealed => At(board, p).Flagged = At(pre, p).Flagged
        /\ (At(board, p).Revealed /\ At(board, p).Flagged) => At(pre, p).Flagged

\* C5 witness: RevealCell uncovered a flagged cell, which is now revealed and
\* flagged.
C5_Witness ==
    /\ Returned(CmdReveal)
    /\ \E p \in Pos(board) :
        /\ ~At(pre, p).Revealed
        /\ At(pre, p).Flagged
        /\ At(board, p).Revealed
        /\ At(board, p).Flagged

\* No cell occurs twice in a sequence of cells.
NoRepeat(seq) == \A i, j \in DOMAIN seq : i # j => seq[i] # seq[j]

\* C6 as claimed: RevealCell makes no nested call of itself (the flood-fill
\* runs on a worklist), so at most one invocation of it is ever active.
C6_NoNestedReveal == Len(stack) <= 1

\* C6 amended. The flood-fill is recursive: the number of active invocations
\* of RevealCell is at most one more than the number of cells the call has
\* revealed so far, which is at most the number of cells of the board.
C6_NestingWithinCells ==
    /\ Len(stack) <= Len(marks) + 1
    /\ Len(marks) <= board.Width * board.Height

\* C6 witness: on a board of at least four cells the nesting reaches the
\* number of cells plus one, every cell having been revealed by this one call.
C6_Witness ==
    /\ board.Width * board.Height >= 4
    /\ Len(marks) = board.Width * board.Height
    /\ Len(stack) = board.Width * board.Height + 1

\* C7. Every call of RevealCell returns (an active call leads to an empty call
\* stack), and within one call no cell's Revealed is set twice: a step sets
\* it only for a cell that is not revealed, and never resets it.
C7_RevealTerminates ==
    /\ (stack # <<>>) ~> (stack = <<>>)
    /\ [](NoRepeat(marks))
    /\ [][RevealedSet(board) \subseteq RevealedSet(board')
          /\ (marks' # marks /\ marks' # <<>> =>
                /\ marks' = Append(marks, marks'[Len(marks')])
                /\ marks'[Len(marks')] \notin RevealedSet(board)
                /\ RevealedSet(board') = RevealedSet(board) \cup {marks'[Len(marks')]})]_vars

\* C7 witness: a call that revealed at least four cells has returned.
C7_Witness ==
    /\ Returned(CmdReveal)
    /\ Len(marks) >= 4
    /\ RevealedSet(board) = RevealedSet(pre) \cup {marks[i] : i \in DOMAIN marks}

\* C8. RevealCell called twice in a row with the same coordinates, valid or
\* not: the second call returns false and leaves the board as the first
\* left it.
C8_RevealIdempotent ==
    (Returned(CmdReveal) /\ again) => (board = pre /\ ret = FALSE /\ marks = <<>>)

\* C8 witness: the second of two calls on a mine has returned (the first
\* returned true), and no other cell of the board is revealed.
C8_Witness ==
    /\ Returned(CmdReveal)
    /\ again
    /\ isValidCell(board, x, y)
    /\ At(board, <<x, y>>).IsMine
    /\ RevealedSet(board) = {<<x, y>>}
    /\ ~ret

\* C9. RevealCell on a valid, unrevealed mine returns true and sets that
\* cell's Revealed; the rest of the board, flags included, stays as it was.
C9_MineRevealOnly ==
    (/\ Returned(CmdReveal)
     /\ isValidCell(pre, x, y)
     /\ At(pre, <<x, y>>).IsMine
     /\ ~At(pre, <<x, y>>).Revealed)
    => /\ ret = TRUE
       /\ board = [pre EXCEPT !.Cells[y][x].Revealed = TRUE]

\* C9 witness: a mine next to a covered safe cell was revealed on a board
\* that holds a flag.
C9_Witness ==
    /\ Returned(CmdReveal)
    /\ isValidCell(pre, x, y)
    /\ At(pre, <<x, y>>).IsMine
    /\ ~At(pre, <<x, y>>).Revealed
    /\ ret
    /\ FlaggedSet(board) # {}
    /\ \E p \in Nbrs(board, <<x, y>>) : ~At(board, p).IsMine /\ ~At(board, p).Revealed

\* C10. FlagCell on a valid, unrevealed cell negates that cell's Flagged and
\* changes nothing else; on a revealed cell it changes nothing; two FlagCell
\* calls in a row on the same coordinates give back the board as it was
\* before the first.
C10_FlagToggles ==
    /\ [](Returned(CmdFlag) =>
            IF isValidCell(pre, x, y) /\ ~At(pre, <<x, y>>).Revealed
            THEN board = [pre EXCEPT !.Cells[y][x].Flagged = ~At(pre, <<x, y>>).Flagged]
            ELSE board = pre)
    /\ [][(cmd = CmdFlag /\ cmd' = CmdFlag /\ again' /\ calls' = calls + 1)
            => board' = pre]_vars

\* C10 witness: the second of two FlagCell calls on the same covered cell has
\* returned, and the cell is unflagged again.
C10_Witness ==
    /\ Returned(CmdFlag)
    /\ again
    /\ isValidCell(board, x, y)
    /\ ~At(board, <<x, y>>).Revealed
    /\ At(pre, <<x, y>>).Flagged
    /\ ~At(board, <<x, y>>).Flagged

\* C11. RevealCell and FlagCell with a coordinate outside of the board
\* (x < 0, x >= Width, y < 0 or y >= Height) return, RevealCell with false,
\* and leave the board as it was; RevealCell marks nothing.
C11_OutOfBoundsNoOp ==
    (/\ stack = <<>>
     /\ cmd \in {CmdReveal, CmdFlag}
     /\ (x < 0 \/ x >= pre.Width \/ y < 0 \/ y >= pre.Height))
    => /\ board = pre
       /\ ret = FALSE
       /\ cmd = CmdReveal => marks = <<>>

\* C11 witness: RevealCell beyond the right edge has returned on a board that
\* FlagCell above the top edge had left alone, and nothing is revealed or
\* flagged.
C11_Witness ==
    /\ Returned(CmdReveal)
    /\ x = board.Width
    /\ calls = 2
    /\ RevealedSet(board) = {}
    /\ FlaggedSet(board) = {}

\* C12. Revealed is monotonic: no step of any call takes a cell's Revealed
\* from true to false.
C12_RevealedMonotonic ==
    [][\A p \in Pos(board) : At(board, p).Revealed => At(board', p).Revealed]_vars

\* C12 witness: after a RevealCell, a FlagCell and a second RevealCell on
\* the revealed cell, or a CheckWin, has returned and the cell is still
\* revealed.
C12_Witness ==
    /\ stack = <<>>
    /\ calls = 2
    /\ cmd \in {CmdFlag, CmdCheckWin}
    /\ RevealedSet(pre) # {}
    /\ RevealedSet(pre) \subseteq RevealedSet(board)

\* What RevealCell(c) uncovers on board b, told from IsMine, AdjMines and
\* Revealed alone: nothing if c is invalid or revealed; else c and, as long
\* as a cell uncovered by this call is safe with count 0, its covered
\* neighbours.
RECURSIVE Spread(_, _)
Spread(b, S) ==
    LET T == S \cup {q \in Pos(b) :
                        /\ ~At(b, q).Revealed
                        /\ \E p \in S : IsZero(b, p) /\ q \in Nbrs(b, p)}
    IN  IF T = S THEN S ELSE Spread(b, T)
Uncovers(b, c) ==
    IF ~isValidCell(b, c[1], c[2]) THEN {}
    ELSE IF At(b, c).Revealed THEN {}
    ELSE Spread(b, {c})
Hits(b, c) == isValidCell(b, c[1], c[2]) /\ ~At(b, c).Revealed /\ At(b, c).IsMine

\* C13. Flags do not influence RevealCell: what it returns and which cells
\* it reveals is determined by the dimensions, mines, counts and revealed
\* fields of the board it is called on, whatever is flagged; flagged cells
\* are uncovered like the others.
C13_FlagsDoNotBlock ==
    Returned(CmdReveal) =>
        /\ ret = Hits(pre, <<x, y>>)
        /\ RevealedSet(board) = RevealedSet(pre) \cup Uncovers(pre, <<x, y>>)

\* C13 witness: the cascade of a RevealCell uncovered a flagged cell that was
\* not its target.
C13_Witness ==
    /\ Returned(CmdReveal)
    /\ \E p \in Pos(board) :
        /\ p # <<x, y>>
        /\ At(pre, p).Flagged
        /\ ~At(pre, p).Revealed
        /\ At(board, p).Revealed

\* C16. On a fresh board CheckWin is false before any RevealCell; on a
\* board without mines the first RevealCell of any valid cell reveals every
\* cell, returns false and makes CheckWin true.
C16_FreshAndMineless ==
    /\ Fresh => ~CheckWin(board)
    /\ (/\ Returned(CmdReveal)
        /\ calls = 1
        /\ MineSet(pre) = {}
        /\ isValidCell(pre, x, y))
       => /\ RevealedSet(board) = Pos(board)
          /\ ret = FALSE
          /\ CheckWin(board)

\* C16 witness: one RevealCell has uncovered all of a board of at least four
\* cells that has no mine.
C16_Witness ==
    /\ Returned(CmdReveal)
    /\ calls = 1
    /\ MineSet(pre) = {}
    /\ RevealedSet(pre) = {}
    /\ Cardinality(Pos(board)) >= 4
    /\ RevealedSet(board) = Pos(board)

\* C18. RevealCell(x, y) returns true exactly when (x, y) is valid, covered
\* and a mine; a RevealCell that does not return true reveals no mine.
C18_CascadeSparesMines ==
    Returned(CmdReveal) =>
        /\ ret <=> (/\ isValidCell(pre, x, y)
                    /\ ~pre.Cells[y][x].Revealed
                    /\ pre.Cells[y][x].IsMine)
        /\ (~isValidCell(pre, x, y) \/ ~pre.Cells[y][x].IsMine)
           => \A p \in MineSet(board) : At(board, p).Revealed = At(pre, p).Revealed

\* C18 witness: a cascade over at least three cells has returned false on a
\* board with a mine, and the mine is still covered.
C18_Witness ==
    /\ Returned(CmdReveal)
    /\ ~ret
    /\ Len(marks) >= 3
    /\ MineSet(board) # {}
    /\ MineSet(board) \cap RevealedSet(board) = {}

\* C19. Between calls every revealed cell that is not a mine and has count 0
\* has all its neighbours on the board revealed.
C19_ZeroCellsClosed ==
    stack = <<>> =>
        \A p \in Pos(board) :
            (At(board, p).Revealed /\ IsZero(board, p))
            => Nbrs(board, p) \subseteq RevealedSet(board)

\* C19 witness: between calls, on a board with a mine, a revealed safe cell of
\* count 0 has neighbours, and a cell of the board is still covered.
C19_Witness ==
    /\ stack = <<>>
    /\ MineSet(board) # {}
    /\ RevealedSet(board) # Pos(board)
    /\ \E p \in RevealedSet(board) : IsZero(board, p) /\ Nbrs(board, p) # {}

\* C20. No step of RevealCell, FlagCell or CheckWin changes Width, Height,
\* IsMine or AdjMines; RevealCell never changes Flagged, FlagCell never
\* changes Revealed, CheckWin changes nothing of the board.
C20_Frame ==
    [][/\ board'.Width = board.Width
       /\ board'.Height = board.Height
       /\ \A p \in Pos(board) :
            /\ At(board', p).IsMine = At(board, p).IsMine
            /\ At(board', p).AdjMines = At(board, p).AdjMines
            /\ cmd' = CmdReveal => At(board', p).Flagged = At(board, p).Flagged
            /\ cmd' = CmdFlag => At(board', p).Revealed = At(board, p).Revealed
       /\ cmd' = CmdCheckWin => board' = board]_vars

\* C20 witness: a RevealCell on a board with a flag has revealed cells and
\* the flags are the ones it found.
C20_Witness ==
    /\ Returned(CmdReveal)
    /\ calls = 2
    /\ FlaggedSet(pre) # {}
    /\ RevealedSet(board) # RevealedSet(pre)
    /\ FlaggedSet(board) = FlaggedSet(pre)
    /\ FlaggedSet(pre) \cap RevealedSet(board) # {}

\* C14. The session of main is a state machine: RevealCell and FlagCell
\* run only while it is "Active"; it becomes "Lost" in the step in which
\* RevealCell returns true to main, "Won" in the step in which RevealCell
\* returns false and CheckWin is true, and stays "Active" after any other
\* return; once it has left "Active" nothing changes any more.
C14_SessionMachine ==
    /\ [](/\ session \in {"Active", "Won", "Lost", "Quit"}
          /\ stack # <<>> => session = "Active")
    /\ [][/\ session = "Active"
          /\ (stack # <<>> /\ stack' = <<>>)
             => session' = IF ret' THEN "Lost"
                           ELSE IF SafeCovered(board') THEN "Active"
                           ELSE "Won"
          /\ session' \in {"Won", "Lost"} => (stack # <<>> /\ stack' = <<>>)]_vars

\* C14 witness: a session was won by its second move.
C14_Witness ==
    /\ session = "Won"
    /\ calls = 2
    /\ cmd = CmdReveal
    /\ MineSet(board) # {}

\* C17. Won and lost exclude each other: when the RevealCell of a running
\* session has returned true the session is lost and CheckWin is false on
\* the board; a won session has no revealed mine.
C17_LostIsNotWon ==
    /\ (Returned(CmdReveal) /\ ret) => (session = "Lost" /\ ~CheckWin(board))
    /\ session = "Lost" => (Returned(CmdReveal) /\ ret)
    /\ session = "Won" => (~ret /\ MineSet(board) \cap RevealedSet(board) = {})

\* C17 witness: a session was lost by its second move, after a first reveal
\* had uncovered cells.
C17_Witness ==
    /\ session = "Lost"
    /\ calls = 2
    /\ RevealedSet(pre) # {}
    /\ RevealedSet(board) # Pos(board)

\* C15. Every operation completes for any integer arguments: the program is
\* never stopped by a panic.
C15_NoCrash == session # "Panic"

====
